---- MODULE Spec2Model ----
(***************************************************************************)
(* SimpleRssMailer: the feed-diffing and notification-dispatch pipeline of *)
(* function/simple_rss_mailer.py.                                          *)
(*                                                                         *)
(* A feed document (the raw RSS text) is a sequence of tokens: a channel   *)
(* header followed by <item> elements; the empty string is the empty       *)
(* sequence.  A Python dict is a TLA+ record whose DOMAIN is its key set,  *)
(* so "'id' in entry" is "id" \in DOMAIN entry.                            *)
(***************************************************************************)
EXTENDS Integers, Sequences, FiniteSets, TLC

\* Longest feed document (number of <item> elements) the feed server serves.
MaxLen == 2

(***************************************************************************)
(* Feed documents                                                          *)
(***************************************************************************)

\* The <channel> header every well-formed document starts with.
ChannelHeader == [channel |-> "Keycloak Blog"]

\* The <item> elements the modelled feed server can publish:
\*   ItemA / ItemA2  same guid, different title (a title edit)
\*   ItemB           no <guid> at all, only a <link>
\*   ItemC           an empty <guid></guid>
ItemA  == [guid |-> "a", link |-> "la", title |-> "t1", pubDate |-> "2025"]
ItemA2 == [guid |-> "a", link |-> "la", title |-> "t2", pubDate |-> "2025"]
ItemB  == [link |-> "lb", title |-> "t3", pubDate |-> "2025"]
ItemC  == [guid |-> "", link |-> "lc", title |-> "t4", pubDate |-> "2025"]
Items  == {ItemA, ItemA2, ItemB, ItemC}

RECURSIVE SeqsUpTo(_, _)
SeqsUpTo(S, n) ==
    IF n = 0 THEN {<<>>}
    ELSE LET shorter == SeqsUpTo(S, n - 1)
         IN  shorter \cup {Append(s, x) : s \in shorter, x \in S}

\* The empty string (what get_rss_feed returns when nothing is stored).
EmptyString == <<>>

\* Every document the feed server can serve: a header and up to MaxLen items.
FeedDocuments == {<<ChannelHeader>> \o items : items \in SeqsUpTo(Items, MaxLen)}

(***************************************************************************)
(* feedparser.parse: raw text -> entries                                   *)
(***************************************************************************)

\* One <item> becomes one entry dict: <guid> is stored under 'id' (only when
\* the element is there), <pubDate> under 'published'.
ParseItem(item) ==
    IF "guid" \in DOMAIN item
    THEN [id |-> item.guid, link |-> item.link, title |-> item.title,
          published |-> item.pubDate]
    ELSE [link |-> item.link, title |-> item.title, published |-> item.pubDate]

IsItem(token) == "link" \in DOMAIN token

RECURSIVE ParseTokens(_)
ParseTokens(text) ==
    IF text = <<>> THEN <<>>
    ELSE IF IsItem(Head(text))
         THEN <<ParseItem(Head(text))>> \o ParseTokens(Tail(text))
         ELSE ParseTokens(Tail(text))

\* feedparser.parse(text).entries; the empty string has no entries.
FeedParserEntries(text) == ParseTokens(text)

(***************************************************************************)
(* SimpleRssMailer.get_rss_entry_id and diff_rss_feeds                     *)
(***************************************************************************)

\* An identity that ignores the id.
get_rss_entry_id_link_only(entry) == entry.link

get_rss_entry_id(entry) ==
    IF "id" \in DOMAIN entry THEN entry.id ELSE entry.link

\* The first loop starting one entry late: the newest old entry is skipped.
RECURSIVE OldItemsIds_skips_first(_)
OldItemsIds_skips_first(entries) ==
    IF entries = <<>> THEN {}
    ELSE IF Len(entries) = 1 THEN {}
    ELSE {get_rss_entry_id(entries[Len(entries)])}
         \cup OldItemsIds_skips_first(SubSeq(entries, 1, Len(entries) - 1))

\* First loop of diff_rss_feeds: old_items_ids.add(...) for every old entry.
RECURSIVE OldItemsIds(_)
OldItemsIds(entries) ==
    IF entries = <<>> THEN {}
    ELSE {get_rss_entry_id(Head(entries))} \cup OldItemsIds(Tail(entries))

\* "entry_id = self.get_rss_entry_id(entry)" for each entry of the new feed.
EntryIds(entries) == [k \in 1..Len(entries) |-> get_rss_entry_id(entries[k])]

\* A second loop that also remembers the identities it has appended, so a
\* repeated identity of the new feed is returned once.
RECURSIVE DiffLoop_self_dedup(_, _, _)
DiffLoop_self_dedup(entries, old_items_ids, new_entries) ==
    IF entries = <<>> THEN new_entries
    ELSE IF get_rss_entry_id(Head(entries)) \notin old_items_ids
         THEN DiffLoop_self_dedup(Tail(entries),
                                  old_items_ids \cup {get_rss_entry_id(Head(entries))},
                                  Append(new_entries, Head(entries)))
         ELSE DiffLoop_self_dedup(Tail(entries), old_items_ids, new_entries)

\* Second loop of diff_rss_feeds: walk the new entries, append the unseen.
RECURSIVE DiffLoop(_, _, _)
DiffLoop(entries, old_items_ids, new_entries) ==
    IF entries = <<>> THEN new_entries
    ELSE DiffLoop(Tail(entries), old_items_ids,
                  IF get_rss_entry_id(Head(entries)) \notin old_items_ids
                  THEN Append(new_entries, Head(entries))
                  ELSE new_entries)

\* A differ that compares whole entries instead of their identities.
diff_rss_feeds_by_value(old_feed_str, new_feed_str) ==
    LET old_entries == FeedParserEntries(old_feed_str)
        Unseen(entry) == \A k \in 1..Len(old_entries) : old_entries[k] /= entry
    IN  SelectSeq(FeedParserEntries(new_feed_str), Unseen)

diff_rss_feeds(old_feed_str, new_feed_str) ==
    DiffLoop(FeedParserEntries(new_feed_str),
             OldItemsIds(FeedParserEntries(old_feed_str)),
             <<>>)

(***************************************************************************)
(* RssStateHandler: the snapshot store on S3                               *)
(***************************************************************************)

\* The feeds the scheduled event names.  urlparse(...).hostname and the MD5
\* digest are tabulated for them (hashlib.md5(url).hexdigest()[-4:]).
KeycloakUrl == "https://www.keycloak.org/rss.xml"
ExampleUrl  == "https://Blog.Example.com/feed"
RssUrls     == {KeycloakUrl, ExampleUrl}

BucketPath == "rss_feeds"

UrlHostname(rss_url) ==
    CASE rss_url = KeycloakUrl -> "www.keycloak.org"
      [] rss_url = ExampleUrl  -> "Blog.Example.com"

Lower(hostname) ==
    CASE hostname = "www.keycloak.org" -> "www.keycloak.org"
      [] hostname = "Blog.Example.com" -> "blog.example.com"

Md5Last4(rss_url) ==
    CASE rss_url = KeycloakUrl -> "5120"
      [] rss_url = ExampleUrl  -> "4bf4"

\* A key built from the path prefix alone, the same for every URL.
calculate_s3_key_prefix_only(s3_path_prefix, rss_url) ==
    <<s3_path_prefix, "/", ".xml">>

\* f"{s3_path_prefix}/{url.hostname.lower()}-{hash}.xml"
calculate_s3_key(s3_path_prefix, rss_url) ==
    <<s3_path_prefix, "/", Lower(UrlHostname(rss_url)), "-", Md5Last4(rss_url), ".xml">>

\* str.encode / bytes.decode and gzip.compress / gzip.decompress.
Encode(str)       == [utf8 |-> str]
Decode(bytes)     == bytes.utf8
GzipCompress(b)   == [gzip |-> b]
GzipDecompress(b) == b.gzip

CONTENT_ENCODING == "content-encoding"
GZIP == "gzip"

\* dict.get(key): None when the key is missing.
DictGet(dict, key) == IF key \in DOMAIN dict THEN dict[key] ELSE "None"

\* The object put_object writes in save_rss_feed.
SavedObject(rss_blob) ==
    [Body |-> GzipCompress(Encode(rss_blob)),
     Metadata |-> (CONTENT_ENCODING :> GZIP)]

\* What an earlier release wrote: the text as it is, no metadata.
PlainObject(rss_blob) == [Body |-> Encode(rss_blob), Metadata |-> <<>>]

\* get_rss_feed when get_object answers (with the object or with NoSuchKey).
get_rss_feed(bucket, rss_url) ==
    LET s3_key == calculate_s3_key(BucketPath, rss_url)
    IN  IF s3_key \notin DOMAIN bucket THEN EmptyString
        ELSE LET s3_response == bucket[s3_key]
             IN  IF DictGet(s3_response.Metadata, CONTENT_ENCODING) = GZIP
                 THEN Decode(GzipDecompress(s3_response.Body))
                 ELSE Decode(s3_response.Body)

\* The object written under a key computed without the bucket path.
save_rss_feed_wrong_key(bucket, rss_url, rss_blob) ==
    (calculate_s3_key("", rss_url) :> SavedObject(rss_blob)) @@ bucket

\* save_rss_feed when put_object succeeds: the bucket afterwards.
save_rss_feed(bucket, rss_url, rss_blob) ==
    (calculate_s3_key(BucketPath, rss_url) :> SavedObject(rss_blob)) @@ bucket

(***************************************************************************)
(* RssNotifier                                                             *)
(***************************************************************************)

JsonDumps(dict) == [json |-> dict]

generate_notification_message(entry) ==
    JsonDumps([default |-> entry.title,
               email   |-> <<entry.title, "\n\nDate: ", entry.published,
                             "\n\nLink: ", entry.link>>])

\* The keys notify reads before it publishes (the logger line): a missing
\* one raises KeyError.
NotifyReads == {"title", "id", "published"}

\* The message client.publish is called with.
PublishRequest(entry) ==
    [MessageStructure |-> "json",
     Subject |-> entry.title,
     Message |-> generate_notification_message(entry)]

Reverse(seq) == [k \in 1..Len(seq) |-> seq[Len(seq) + 1 - k]]

\* The loop without reversed(): newest first.
NotifyOrder_forward(entries) == entries

\* "for new_entry in reversed(new_entries)": the order of the notify calls.
NotifyOrder(entries) == Reverse(entries)

(***************************************************************************)
(* Zoho emailer                                                            *)
(***************************************************************************)

\* json.loads(record['Sns']['Message'])
JsonLoads(str) == str.json

\* The keys handle reads from every record's message: a missing one raises
\* KeyError.
ZohoHandleReads == {"link", "title", "publishDate", "contentType", "content"}

(***************************************************************************)
(* State                                                                   *)
(***************************************************************************)

VARIABLES
    s3,            \* the bucket: S3 key -> stored object (only the keys that exist)
    rss_urls,      \* check_feeds: the list of feeds of this invocation
    idx,           \* check_feeds: position of the for loop in rss_urls (1-based)
    new_articles,  \* check_feeds: the running total
    pc,            \* where the invocation stands
    new_rss_feed,  \* process_rss_feed: the downloaded text
    old_rss_feed,  \* process_rss_feed: the stored text
    old_items_ids, \* diff_rss_feeds: the identities of the stored feed's entries
    entry_ids,     \* diff_rss_feeds: entry_id of each entry of the new feed, in order
    new_entries,   \* process_rss_feed: what diff_rss_feeds returned
    notify_calls,  \* the entries notify was called with in this cycle, in order
    sns,           \* the messages the topic accepted in this cycle, in order
    put_calls,     \* number of save_rss_feed calls in this cycle
    result,        \* the value process_rss_feed returned (when status = "returned")
    status,        \* how the cycle ended: "running", "returned" or the call that raised
    s3_at_start,   \* the bucket when the cycle began
    prev,          \* what the cycle before this one left behind
    batch,         \* check_feeds: the cycles this invocation has finished, and how it ended
    sns_content    \* a call of generate_content_for_sns: its arguments and result

vars == <<s3, rss_urls, idx, new_articles, pc, new_rss_feed, old_rss_feed,
          old_items_ids, entry_ids, new_entries, notify_calls, sns, put_calls, result, status,
          s3_at_start, prev, batch, sns_content>>

cycle_locals == <<new_rss_feed, old_rss_feed, old_items_ids, entry_ids,
                  new_entries, notify_calls, sns,
                  put_calls, result, status>>

\* The feed the running cycle is about.
rss_url == rss_urls[idx]

\* What a feed server can answer: any document, or an empty body.
Downloads == FeedDocuments \cup {EmptyString}

\* The texts save_rss_feed can have stored: it only runs with a new entry.
Snapshots == {d \in FeedDocuments : Len(FeedParserEntries(d)) > 0}

\* The buckets a deployment can be in for one feed: nothing stored yet, a
\* snapshot this release saved, or one an earlier release saved uncompressed.
BucketsOf(url) ==
    {<<>>}
    \cup {calculate_s3_key(BucketPath, url) :> SavedObject(d) : d \in Snapshots}
    \cup {calculate_s3_key(BucketPath, url) :> PlainObject(d) : d \in Snapshots}

NoPrev == [rss_url |-> "", status |-> "none", new_rss_feed |-> EmptyString,
           found |-> {}, delivered |-> 0]

Range(seq) == {seq[k] : k \in 1..Len(seq)}

\* No invocation of check_feeds has ended yet.
NoBatch == [cycles |-> <<>>, outcome |-> "none", total |-> 0]

\* generate_content_for_sns has not been called.
NoContent == [contents |-> <<>>, max_length |-> 0, called |-> FALSE,
              result |-> <<"", "">>]

\* Nothing has run yet: no invocation, no cycle.
InitCycle ==
    /\ batch = NoBatch
    /\ idx = 1
    /\ new_articles = 0
    /\ pc = "idle"
    /\ new_rss_feed = EmptyString
    /\ old_rss_feed = EmptyString
    /\ old_items_ids = {}
    /\ entry_ids = <<>>
    /\ new_entries = <<>>
    /\ notify_calls = <<>>
    /\ sns = <<>>
    /\ put_calls = 0
    /\ result = 0
    /\ status = "running"
    /\ s3_at_start = s3
    /\ prev = NoPrev

\* One feed, any stored snapshot.
Init ==
    /\ rss_urls = <<KeycloakUrl>>
    /\ s3 \in BucketsOf(KeycloakUrl)
    /\ sns_content = NoContent
    /\ InitCycle

(***************************************************************************)
(* check_feeds and process_rss_feed, step by step                          *)
(***************************************************************************)

\* handle / check_feeds: new_articles = 0 and the first turn of the for loop
\* enters process_rss_feed.
CheckFeeds ==
    /\ pc = "idle"
    /\ Len(rss_urls) > 0
    /\ idx' = 1
    /\ new_articles' = 0
    /\ s3_at_start' = s3
    /\ pc' = "download"
    /\ batch' = [cycles |-> <<>>, outcome |-> "running", total |-> 0]
    /\ UNCHANGED <<s3, rss_urls, cycle_locals, prev, sns_content>>

\* new_rss_feed = self.download_rss(rss_url), the server answering with one
\* of the given texts.
DownloadRssFrom(texts) ==
    /\ pc = "download"
    /\ \E text \in texts : new_rss_feed' = text
    /\ pc' = "get"
    /\ UNCHANGED <<s3, rss_urls, idx, new_articles, old_rss_feed,
                   old_items_ids, entry_ids, new_entries, notify_calls, sns, put_calls, result, status, s3_at_start, prev, batch, sns_content>>

\* new_rss_feed = self.download_rss(rss_url)
DownloadRss == DownloadRssFrom(Downloads)

\* A failed download that has already overwritten the snapshot with the
\* empty text.
DownloadFails_clears ==
    /\ pc = "download"
    /\ s3' = save_rss_feed(s3, rss_url, EmptyString)
    /\ put_calls' = put_calls + 1
    /\ status' = "raised_download"
    /\ pc' = "done"
    /\ UNCHANGED <<rss_urls, idx, new_articles, new_rss_feed, old_rss_feed,
                   old_items_ids, entry_ids, new_entries, notify_calls, sns,
                   result, s3_at_start, prev, batch, sns_content>>

\* urlopen raises: the exception leaves process_rss_feed.
DownloadFails ==
    /\ pc = "download"
    /\ status' = "raised_download"
    /\ pc' = "done"
    /\ UNCHANGED <<s3, rss_urls, idx, new_articles, new_rss_feed, old_rss_feed,
                   old_items_ids, entry_ids, new_entries, notify_calls, sns, put_calls, result,
                   s3_at_start, prev, batch, sns_content>>

\* process_rss_feed without its early return: an empty diff goes on to save.
GetAndDiff_always_saves ==
    /\ pc = "get"
    /\ LET old == get_rss_feed(s3, rss_url)
           new == diff_rss_feeds(old, new_rss_feed)
       IN  /\ old_rss_feed' = old
           /\ old_items_ids' = OldItemsIds(FeedParserEntries(old))
           /\ entry_ids' = EntryIds(FeedParserEntries(new_rss_feed))
           /\ new_entries' = new
           /\ pc' = IF Len(new) = 0 THEN "save" ELSE "notify"
    /\ UNCHANGED <<s3, rss_urls, idx, new_articles, new_rss_feed, notify_calls,
                   sns, put_calls, result, status, s3_at_start, prev, batch, sns_content>>

\* old_rss_feed = get_rss_feed(rss_url); new_entries = diff_rss_feeds(...);
\* "if len(new_entries) == 0: return 0".
GetAndDiff ==
    /\ pc = "get"
    /\ LET old == get_rss_feed(s3, rss_url)
           new == diff_rss_feeds(old, new_rss_feed)
       IN  /\ old_rss_feed' = old
           /\ old_items_ids' = OldItemsIds(FeedParserEntries(old))
           /\ entry_ids' = EntryIds(FeedParserEntries(new_rss_feed))
           /\ new_entries' = new
           /\ IF Len(new) = 0
              THEN /\ result' = 0
                   /\ status' = "returned"
                   /\ pc' = "done"
              ELSE /\ pc' = "notify"
                   /\ UNCHANGED <<result, status>>
    /\ UNCHANGED <<s3, rss_urls, idx, new_articles, new_rss_feed, notify_calls,
                   sns, put_calls, s3_at_start, prev, batch, sns_content>>

\* get_object raises something other than NoSuchKey.
GetFails ==
    /\ pc = "get"
    /\ status' = "raised_get"
    /\ pc' = "done"
    /\ UNCHANGED <<s3, rss_urls, idx, new_articles, new_rss_feed, old_rss_feed,
                   old_items_ids, entry_ids, new_entries, notify_calls, sns, put_calls, result,
                   s3_at_start, prev, batch, sns_content>>

\* The entry the for loop hands to notify next.
NextEntry == NotifyOrder(new_entries)[Len(notify_calls) + 1]

\* A loop that saves the snapshot after every notification.
NotifyPublishes_saves_each ==
    /\ pc = "notify"
    /\ NotifyReads \subseteq DOMAIN NextEntry
    /\ notify_calls' = Append(notify_calls, NextEntry)
    /\ sns' = Append(sns, PublishRequest(NextEntry))
    /\ s3' = save_rss_feed(s3, rss_url, new_rss_feed)
    /\ put_calls' = put_calls + 1
    /\ pc' = IF Len(notify_calls') = Len(new_entries) THEN "save" ELSE "notify"
    /\ UNCHANGED <<rss_urls, idx, new_articles, new_rss_feed, old_rss_feed,
                   old_items_ids, entry_ids, new_entries, result, status,
                   s3_at_start, prev, batch, sns_content>>

\* notify(new_entry) returns: the topic took the message.
NotifyPublishes ==
    /\ pc = "notify"
    /\ NotifyReads \subseteq DOMAIN NextEntry
    /\ notify_calls' = Append(notify_calls, NextEntry)
    /\ sns' = Append(sns, PublishRequest(NextEntry))
    /\ pc' = IF Len(notify_calls') = Len(new_entries) THEN "save" ELSE "notify"
    /\ UNCHANGED <<s3, rss_urls, idx, new_articles, new_rss_feed, old_rss_feed,
                   old_items_ids, entry_ids, new_entries, put_calls, result, status, s3_at_start, prev, batch, sns_content>>

\* The snapshot saved before the loop notifies: a failed publish then leaves
\* the new snapshot behind.
NotifyPublishFails_saved ==
    /\ pc = "notify"
    /\ NotifyReads \subseteq DOMAIN NextEntry
    /\ notify_calls' = Append(notify_calls, NextEntry)
    /\ s3' = save_rss_feed(s3, rss_url, new_rss_feed)
    /\ put_calls' = put_calls + 1
    /\ status' = "raised_notify"
    /\ pc' = "done"
    /\ UNCHANGED <<rss_urls, idx, new_articles, new_rss_feed, old_rss_feed,
                   old_items_ids, entry_ids, new_entries, sns, result,
                   s3_at_start, prev, batch, sns_content>>

\* A loop that swallows the exception of a failed publish and goes on.
NotifyPublishFails_swallowed ==
    /\ pc = "notify"
    /\ NotifyReads \subseteq DOMAIN NextEntry
    /\ notify_calls' = Append(notify_calls, NextEntry)
    /\ pc' = IF Len(notify_calls') = Len(new_entries) THEN "save" ELSE "notify"
    /\ UNCHANGED <<s3, rss_urls, idx, new_articles, new_rss_feed, old_rss_feed,
                   old_items_ids, entry_ids, new_entries, sns, put_calls,
                   result, status, s3_at_start, prev, batch, sns_content>>

\* notify(new_entry) raises in client.publish.
NotifyPublishFails ==
    /\ pc = "notify"
    /\ NotifyReads \subseteq DOMAIN NextEntry
    /\ notify_calls' = Append(notify_calls, NextEntry)
    /\ status' = "raised_notify"
    /\ pc' = "done"
    /\ UNCHANGED <<s3, rss_urls, idx, new_articles, new_rss_feed, old_rss_feed,
                   old_items_ids, entry_ids, new_entries, sns, put_calls, result, s3_at_start, prev, batch, sns_content>>

\* notify(new_entry) raises KeyError in its first line: the entry lacks a key
\* the log message reads.
NotifyKeyError ==
    /\ pc = "notify"
    /\ ~(NotifyReads \subseteq DOMAIN NextEntry)
    /\ notify_calls' = Append(notify_calls, NextEntry)
    /\ status' = "raised_notify"
    /\ pc' = "done"
    /\ UNCHANGED <<s3, rss_urls, idx, new_articles, new_rss_feed, old_rss_feed,
                   old_items_ids, entry_ids, new_entries, sns, put_calls, result, s3_at_start, prev, batch, sns_content>>

\* save_rss_feed called with the stored text instead of the downloaded one.
SaveRssFeed_old_text ==
    /\ pc = "save"
    /\ s3' = save_rss_feed(s3, rss_url, old_rss_feed)
    /\ put_calls' = put_calls + 1
    /\ result' = Len(new_entries)
    /\ status' = "returned"
    /\ pc' = "done"
    /\ UNCHANGED <<rss_urls, idx, new_articles, new_rss_feed, old_rss_feed,
                   old_items_ids, entry_ids, new_entries, notify_calls, sns,
                   s3_at_start, prev, batch, sns_content>>

\* A cycle that returns the size of the whole feed instead of the new entries.
SaveRssFeed_counts_feed ==
    /\ pc = "save"
    /\ s3' = save_rss_feed(s3, rss_url, new_rss_feed)
    /\ put_calls' = put_calls + 1
    /\ result' = Len(FeedParserEntries(new_rss_feed))
    /\ status' = "returned"
    /\ pc' = "done"
    /\ UNCHANGED <<rss_urls, idx, new_articles, new_rss_feed, old_rss_feed,
                   old_items_ids, entry_ids, new_entries, notify_calls, sns,
                   s3_at_start, prev, batch, sns_content>>

\* save_rss_feed(rss_url, new_rss_feed); return len(new_entries)
SaveRssFeed ==
    /\ pc = "save"
    /\ s3' = save_rss_feed(s3, rss_url, new_rss_feed)
    /\ put_calls' = put_calls + 1
    /\ result' = Len(new_entries)
    /\ status' = "returned"
    /\ pc' = "done"
    /\ UNCHANGED <<rss_urls, idx, new_articles, new_rss_feed, old_rss_feed,
                   old_items_ids, entry_ids, new_entries, notify_calls, sns, s3_at_start, prev, batch, sns_content>>

\* A put_object that raises although the object was stored.
SaveFails_stored ==
    /\ pc = "save"
    /\ s3' = save_rss_feed(s3, rss_url, new_rss_feed)
    /\ put_calls' = put_calls + 1
    /\ status' = "raised_save"
    /\ pc' = "done"
    /\ UNCHANGED <<rss_urls, idx, new_articles, new_rss_feed, old_rss_feed,
                   old_items_ids, entry_ids, new_entries, notify_calls, sns,
                   result, s3_at_start, prev, batch, sns_content>>

\* put_object raises.
SaveFails ==
    /\ pc = "save"
    /\ put_calls' = put_calls + 1
    /\ status' = "raised_save"
    /\ pc' = "done"
    /\ UNCHANGED <<s3, rss_urls, idx, new_articles, new_rss_feed, old_rss_feed,
                   old_items_ids, entry_ids, new_entries, notify_calls, sns, result, s3_at_start, prev, batch, sns_content>>

\* What the finished cycle leaves behind for the next one to be compared
\* with: the text it fetched if it returned, the entries it had found new if
\* it was aborted and how many of them the topic had taken.
Remember ==
    [rss_url      |-> rss_url,
     status       |-> status,
     new_rss_feed |-> IF status = "returned" THEN new_rss_feed ELSE EmptyString,
     found        |-> IF status = "returned" THEN {} ELSE Range(new_entries),
     delivered    |-> IF status = "returned" THEN 0 ELSE Len(sns)]

\* A total that keeps only the count of the last feed.
AddArticles_overwrite(total, count) == count

\* "new_articles += srs.process_rss_feed(rss_url)"
AddArticles(total, count) == total + count

\* A loop that swallows the exception of a cycle and goes on with the next
\* feed.
LoopContinues_swallow(cycle_status) == TRUE

\* The for loop of check_feeds goes on after a cycle only if the cycle
\* returned: nothing catches what process_rss_feed raises.
LoopContinues(cycle_status) == cycle_status = "returned"

\* Back in check_feeds: "new_articles += ..." and the next turn of the loop,
\* or the end of the invocation (the list is done, or the exception of
\* process_rss_feed leaves check_feeds too).
EndCycle ==
    /\ pc = "done"
    /\ prev' = Remember
    /\ LET finished == Append(batch.cycles, [rss_url |-> rss_url,
                                             status |-> status,
                                             result |-> result])
       IN  IF LoopContinues(status)
           THEN /\ new_articles' = AddArticles(new_articles, result)
                /\ IF idx < Len(rss_urls)
                   THEN /\ idx' = idx + 1
                        /\ pc' = "download"
                        /\ batch' = [batch EXCEPT !.cycles = finished]
                   ELSE /\ idx' = 1
                        /\ pc' = "idle"
                        /\ batch' = [cycles |-> finished, outcome |-> "returned",
                                     total |-> new_articles']
           ELSE /\ idx' = 1
                /\ pc' = "idle"
                /\ batch' = [cycles |-> finished, outcome |-> "raised", total |-> 0]
                /\ UNCHANGED new_articles
    /\ new_rss_feed' = EmptyString
    /\ old_rss_feed' = EmptyString
    /\ old_items_ids' = {}
    /\ entry_ids' = <<>>
    /\ new_entries' = <<>>
    /\ notify_calls' = <<>>
    /\ sns' = <<>>
    /\ put_calls' = 0
    /\ result' = 0
    /\ status' = "running"
    /\ s3_at_start' = s3
    /\ UNCHANGED <<s3, rss_urls, sns_content>>

Next ==
    \/ CheckFeeds
    \/ DownloadRss
    \/ DownloadFails
    \/ GetAndDiff
    \/ GetFails
    \/ NotifyPublishes
    \/ NotifyPublishFails
    \/ NotifyKeyError
    \/ SaveRssFeed
    \/ SaveFails
    \/ EndCycle

Spec == Init /\ [][Next]_vars

(***************************************************************************)
(* check_feeds over a list of feeds                                        *)
(***************************************************************************)

\* Longest list of feeds an event names.
MaxUrls == 2

\* The lists of feeds an event can name (a feed may be named twice).
UrlLists == SeqsUpTo(RssUrls, MaxUrls)

\* What the feed servers answer in a batch run: the feed with one entry, the
\* same feed after one more was published, and one whose newest entry has no
\* id.
BatchDocuments ==
    {<<ChannelHeader, ItemA>>,
     <<ChannelHeader, ItemC, ItemA>>,
     <<ChannelHeader, ItemB, ItemA>>}

\* The buckets a batch run starts from: for each feed nothing, or the feed
\* with one entry.
BatchBuckets ==
    {k @@ e : k \in {<<>>, calculate_s3_key(BucketPath, KeycloakUrl)
                               :> SavedObject(<<ChannelHeader, ItemA>>)},
              e \in {<<>>, calculate_s3_key(BucketPath, ExampleUrl)
                               :> SavedObject(<<ChannelHeader, ItemA>>)}}

InitBatch ==
    /\ rss_urls \in UrlLists
    /\ s3 \in BatchBuckets
    /\ sns_content = NoContent
    /\ InitCycle

\* check_feeds with an empty list: the loop body never runs, 0 is returned.
CheckFeedsNoUrls ==
    /\ pc = "idle"
    /\ Len(rss_urls) = 0
    /\ batch.outcome /= "returned"
    /\ new_articles' = 0
    /\ batch' = [cycles |-> <<>>, outcome |-> "returned", total |-> 0]
    /\ UNCHANGED <<s3, rss_urls, idx, pc, cycle_locals, s3_at_start, prev,
                   sns_content>>

DownloadRssBatch == DownloadRssFrom(BatchDocuments)

NextBatch ==
    \/ CheckFeeds
    \/ CheckFeedsNoUrls
    \/ DownloadRssBatch
    \/ DownloadFails
    \/ GetAndDiff
    \/ GetFails
    \/ NotifyPublishes
    \/ NotifyPublishFails
    \/ NotifyKeyError
    \/ SaveRssFeed
    \/ SaveFails
    \/ EndCycle

SpecBatch == InitBatch /\ [][NextBatch]_vars

(***************************************************************************)
(* The content of a notification                                           *)
(***************************************************************************)

MaxContents == 2
MaxContentLength == 50

TEXT == "text/plain"
TEXT_VALUE == "plain text"
HTML == "text/html"
HTML_VALUE == "<b>html</b> content that is kinda <u>long</u>"

\* The content dicts of an entry: plain text, html, and a type that is
\* neither.
ContentDicts ==
    {[type |-> TEXT, value |-> TEXT_VALUE],
     [type |-> HTML, value |-> HTML_VALUE],
     [type |-> "image/png", value |-> "png"]}

ContentLists == SeqsUpTo(ContentDicts, MaxContents)

\* The contents of the given type that are not longer than max_length.
FittingContents(contents, type, max_length) ==
    SelectSeq(contents, LAMBDA c : c.type = type /\ Len(c.value) <= max_length)

\* The selection with the preference inverted: plain text before html.
generate_content_for_sns_prefers_plain(contents, max_length) ==
    LET html  == FittingContents(contents, HTML, max_length)
        plain == FittingContents(contents, TEXT, max_length)
    IN  IF plain /= <<>> THEN <<TEXT, Head(plain).value>>
        ELSE IF html /= <<>> THEN <<HTML, Head(html).value>>
        ELSE <<"", "">>

\* generate_content_for_sns: html if it fits, else plain text if it fits,
\* else ('', '').
generate_content_for_sns(contents, max_length) ==
    LET html  == FittingContents(contents, HTML, max_length)
        plain == FittingContents(contents, TEXT, max_length)
    IN  IF html /= <<>> THEN <<HTML, Head(html).value>>
        ELSE IF plain /= <<>> THEN <<TEXT, Head(plain).value>>
        ELSE <<"", "">>

InitContent ==
    /\ rss_urls = <<>>
    /\ s3 = <<>>
    /\ sns_content \in [contents : ContentLists,
                        max_length : 0..MaxContentLength,
                        called : {FALSE},
                        result : {<<"", "">>}]
    /\ InitCycle

GenerateContentForSns ==
    /\ ~sns_content.called
    /\ sns_content' =
          [sns_content EXCEPT
              !.called = TRUE,
              !.result = generate_content_for_sns(sns_content.contents,
                                                  sns_content.max_length)]
    /\ UNCHANGED <<s3, rss_urls, idx, new_articles, pc, batch, s3_at_start, prev>>
    /\ UNCHANGED cycle_locals

NextContent == GenerateContentForSns

SpecContent == InitContent /\ [][NextContent]_vars

(***************************************************************************)
(* Properties of one sync cycle                                            *)
(***************************************************************************)

\* The cycle has read the stored snapshot and computed the diff.
Diffed == pc \in {"notify", "save"}
          \/ (pc = "done" /\ status \notin {"raised_download", "raised_get"})

\* The text persisted for the running cycle's feed.
Persisted == get_rss_feed(s3, rss_url)

\* C1: first-run suppression: a cycle whose stored snapshot is empty or
\* absent and whose fetched feed has entries returns 0, calls notify zero
\* times and still persists the fetched text.
C1_FirstRunSuppressed ==
    (/\ pc = "done"
     /\ status = "returned"
     /\ old_rss_feed = EmptyString
     /\ Len(FeedParserEntries(new_rss_feed)) > 0)
    => (/\ result = 0
        /\ notify_calls = <<>>
        /\ Persisted = new_rss_feed)

\* C2: notification order: the notify calls of a cycle are the entries diff
\* returned taken from the end of its list (oldest first), one after the
\* other, and a cycle that returns after notifying has made all of them: the
\* calls are exactly the reverse of diff's list.
C2_NotifyOldestFirst ==
    /\ Len(notify_calls) <= Len(new_entries)
    /\ \A k \in 1..Len(notify_calls) :
           notify_calls[k] = new_entries[Len(new_entries) + 1 - k]
    /\ (pc = "save" \/ (pc = "done" /\ status = "returned"))
           => Len(notify_calls) = Len(new_entries)

C2_Witness ==
    /\ pc = "done"
    /\ status = "returned"
    /\ Len(notify_calls) = 2
    /\ notify_calls[1] /= notify_calls[2]
    /\ new_entries = <<notify_calls[2], notify_calls[1]>>

\* C3: diff_rss_feeds(old, new) is exactly the entries of the new feed whose
\* identity does not occur among the identities of the old feed's entries,
\* in the new feed's order; an entry whose identity the old feed has is not
\* returned, whatever its other fields.
C3_DiffByIdentity ==
    Diffed =>
        LET old_entries == FeedParserEntries(old_rss_feed)
            IsNew(entry) ==
                \A k \in 1..Len(old_entries) :
                    get_rss_entry_id(old_entries[k]) /= get_rss_entry_id(entry)
        IN  new_entries = SelectSeq(FeedParserEntries(new_rss_feed), IsNew)

\* The stored feed has the entry with the old title, the fetched feed has it
\* with the new title next to an entry that is new: only the latter is found.
C3_Witness ==
    /\ Diffed
    /\ FeedParserEntries(old_rss_feed) = <<ParseItem(ItemA)>>
    /\ FeedParserEntries(new_rss_feed) = <<ParseItem(ItemC), ParseItem(ItemA2)>>
    /\ new_entries = <<ParseItem(ItemC)>>

\* C4: a cycle in which notify fails on any entry does not call
\* save_rss_feed, and the persisted snapshot is afterwards what it was before.
C4_NotifyFailureSkipsSave ==
    (pc = "done" /\ status = "raised_notify")
    => (put_calls = 0 /\ s3 = s3_at_start /\ Persisted = old_rss_feed)

\* The failure hits the second entry, after the first was delivered.
C4_Witness ==
    /\ pc = "done"
    /\ status = "raised_notify"
    /\ Len(notify_calls) = 2
    /\ Len(sns) = 1
    /\ old_rss_feed /= EmptyString

\* C5: no new entries against a non-empty stored snapshot: the cycle returns
\* 0, calls notify zero times and does not write the store.
C5_NothingNewIsNoOp ==
    (/\ pc \in {"notify", "save", "done"}
     /\ old_rss_feed /= EmptyString
     /\ new_entries = <<>>)
    => (/\ pc = "done"
        /\ status = "returned"
        /\ result = 0
        /\ notify_calls = <<>>
        /\ sns = <<>>
        /\ put_calls = 0
        /\ s3 = s3_at_start)

\* The fetched text differs from the stored one and yet has nothing new.
C5_Witness ==
    /\ pc = "done"
    /\ status = "returned"
    /\ old_rss_feed /= EmptyString
    /\ new_entries = <<>>
    /\ Len(FeedParserEntries(new_rss_feed)) > 0
    /\ new_rss_feed /= old_rss_feed

\* How often an entry occurs in a list.
Count(seq, entry) == Cardinality({k \in 1..Len(seq) : seq[k] = entry})

\* Every entry of the first list occurs as often in the second, and nothing
\* else does.
SameEntries(a, b) ==
    /\ Len(a) = Len(b)
    /\ \A k \in 1..Len(a) : Count(a, a[k]) = Count(b, a[k])

\* C6 as stated: a cycle that starts from a non-empty stored snapshot and in
\* which no collaborator fails notifies every entry diff returned exactly
\* once and nothing else, and afterwards the persisted snapshot equals the
\* fetched text.
C6_AlwaysPersisted ==
    (pc = "done" /\ status = "returned" /\ old_rss_feed /= EmptyString)
    => (/\ SameEntries(new_entries, notify_calls)
        /\ sns = [k \in 1..Len(notify_calls) |-> PublishRequest(notify_calls[k])]
        /\ Persisted = new_rss_feed)

\* C6, amended: such a cycle notifies every entry diff returned exactly once
\* and nothing else; if diff returned at least one entry the persisted
\* snapshot afterwards equals the fetched text, and if it returned none the
\* snapshot is left as it was.
C6_NotifiedOncePersistedIfNew ==
    (pc = "done" /\ status = "returned" /\ old_rss_feed /= EmptyString)
    => (/\ SameEntries(new_entries, notify_calls)
        /\ sns = [k \in 1..Len(notify_calls) |-> PublishRequest(notify_calls[k])]
        /\ new_entries /= <<>> => Persisted = new_rss_feed
        /\ new_entries = <<>> => Persisted = old_rss_feed)

\* Stored {A}, fetched {C, A}: only C is notified, once, and the fetched text
\* is stored.
C6_Witness ==
    /\ pc = "done"
    /\ status = "returned"
    /\ FeedParserEntries(old_rss_feed) = <<ParseItem(ItemA)>>
    /\ FeedParserEntries(new_rss_feed) = <<ParseItem(ItemC), ParseItem(ItemA)>>
    /\ notify_calls = <<ParseItem(ItemC)>>
    /\ Len(sns) = 1
    /\ Persisted = new_rss_feed
    /\ Persisted /= old_rss_feed

\* C7: a cycle whose download fails ends with no notify call and no write of
\* the snapshot store.
C7_FetchFailureNoSideEffects ==
    (pc = "done" /\ status = "raised_download")
    => (/\ notify_calls = <<>>
        /\ sns = <<>>
        /\ put_calls = 0
        /\ s3 = s3_at_start)

C7_Witness ==
    /\ pc = "done"
    /\ status = "raised_download"
    /\ Persisted /= EmptyString

\* The entries the aborted cycle before this one had found new and that the
\* text fetched now still has.
FoundAgain == prev.found \cap Range(FeedParserEntries(new_rss_feed))

\* C8: at-least-once: in the cycle that follows, for the same feed, a cycle
\* aborted by a notify failure, every entry the aborted cycle had found new
\* and the fetched feed still has is found new again, those delivered before
\* the failure included, and is notified again once the loop has run; and a
\* cycle never replaces the snapshot without having delivered every entry it
\* found new.
C8_ReattemptAfterAbort ==
    /\ (Diffed /\ prev.status = "raised_notify" /\ prev.rss_url = rss_url)
       => (/\ FoundAgain \subseteq Range(new_entries)
           /\ (pc = "save" \/ (pc = "done" /\ status \in {"returned", "raised_save"}))
              => (/\ FoundAgain \subseteq Range(notify_calls)
                  /\ \A entry \in FoundAgain :
                         \E k \in 1..Len(sns) : sns[k] = PublishRequest(entry)))
    /\ s3 /= s3_at_start
       => (/\ Len(sns) = Len(new_entries)
           /\ \A k \in 1..Len(new_entries) :
                  \E j \in 1..Len(sns) : sns[j] = PublishRequest(new_entries[k]))

\* The aborted cycle had found two entries and delivered one; this cycle
\* notifies both.
C8_Witness ==
    /\ pc = "done"
    /\ status = "returned"
    /\ prev.status = "raised_notify"
    /\ prev.rss_url = rss_url
    /\ Cardinality(prev.found) = 2
    /\ prev.delivered = 1
    /\ FoundAgain = prev.found
    /\ Len(sns) = 2

\* C9: a cycle that fetches the text the cycle before it, for the same feed,
\* fetched and completed with, sends no notification and returns 0.
C9_IdempotentSync ==
    (/\ Diffed
     /\ prev.status = "returned"
     /\ prev.rss_url = rss_url
     /\ new_rss_feed = prev.new_rss_feed)
    => (/\ pc = "done"
        /\ status = "returned"
        /\ result = 0
        /\ notify_calls = <<>>
        /\ sns = <<>>)

\* The first of the two cycles stored the text, the second reads it back.
C9_Witness ==
    /\ pc = "done"
    /\ status = "returned"
    /\ prev.status = "returned"
    /\ prev.rss_url = rss_url
    /\ new_rss_feed = prev.new_rss_feed
    /\ old_rss_feed = new_rss_feed
    /\ Len(FeedParserEntries(new_rss_feed)) = 2

\* The entry the k-th identity of the diff belongs to.
NewFeedEntry(k) == FeedParserEntries(new_rss_feed)[k]

\* C10 as stated: the identity of an entry is its id if the id is present and
\* non-empty, and its link otherwise.
C10_IdIfNonEmptyElseLink ==
    Diffed =>
        /\ Len(entry_ids) = Len(FeedParserEntries(new_rss_feed))
        /\ \A k \in 1..Len(entry_ids) :
               entry_ids[k] =
                   IF "id" \in DOMAIN NewFeedEntry(k) /\ NewFeedEntry(k).id /= ""
                   THEN NewFeedEntry(k).id
                   ELSE NewFeedEntry(k).link

\* C10, amended: the identity of an entry is its id whenever the entry has an
\* id, an empty one included, and its link only when it has no id at all.
C10_IdIfPresentElseLink ==
    Diffed =>
        /\ Len(entry_ids) = Len(FeedParserEntries(new_rss_feed))
        /\ \A k \in 1..Len(entry_ids) :
               /\ "id" \in DOMAIN NewFeedEntry(k)
                      => entry_ids[k] = NewFeedEntry(k).id
               /\ "id" \notin DOMAIN NewFeedEntry(k)
                      => entry_ids[k] = NewFeedEntry(k).link
        /\ old_items_ids =
               {IF "id" \in DOMAIN entry THEN entry.id ELSE entry.link :
                    entry \in Range(FeedParserEntries(old_rss_feed))}

\* A feed with an entry that has no id (identity: its link) and one whose id
\* is empty (identity: the empty id).
C10_Witness ==
    /\ Diffed
    /\ FeedParserEntries(new_rss_feed) = <<ParseItem(ItemB), ParseItem(ItemC)>>
    /\ entry_ids = <<"lb", "">>

\* C11: diff_rss_feeds(f, f) is the empty list: a cycle whose fetched text is
\* the stored text finds nothing new.
C11_DiffOfSameSnapshotEmpty ==
    (Diffed /\ old_rss_feed = new_rss_feed) => new_entries = <<>>

\* The same two-entry text on both sides.
C11_Witness ==
    /\ Diffed
    /\ old_rss_feed = new_rss_feed
    /\ Len(FeedParserEntries(new_rss_feed)) = 2
    /\ new_entries = <<>>

RECURSIVE SumOfResults(_)
SumOfResults(cycles) ==
    IF cycles = <<>> THEN 0
    ELSE Head(cycles).result + SumOfResults(Tail(cycles))

\* C13: check_feeds calls process_rss_feed once per URL of the list, in list
\* order, and when no feed fails it returns the sum of the counts the cycles
\* returned.
C13_OncePerUrlInOrderSummed ==
    /\ Len(batch.cycles) <= Len(rss_urls)
    /\ \A k \in 1..Len(batch.cycles) : batch.cycles[k].rss_url = rss_urls[k]
    /\ pc /= "idle" => Len(batch.cycles) = idx - 1
    /\ (pc = "idle" /\ batch.outcome = "returned")
       => (/\ Len(batch.cycles) = Len(rss_urls)
           /\ \A k \in 1..Len(batch.cycles) : batch.cycles[k].status = "returned"
           /\ batch.total = SumOfResults(batch.cycles))

\* Two different feeds, the first with two new entries, the second with one.
C13_Witness ==
    /\ pc = "idle"
    /\ batch.outcome = "returned"
    /\ Len(rss_urls) = 2
    /\ rss_urls[1] /= rss_urls[2]
    /\ batch.cycles[1].result = 2
    /\ batch.cycles[2].result = 1
    /\ batch.total = 3

\* C14 (as claimed): a feed whose cycle fails contributes zero and aborts only
\* its own cycle; every feed of the list is still synced and the batch returns
\* the sum of the counts.
C14_FailedFeedIsolated ==
    (pc = "idle" /\ batch.outcome /= "none")
    => (/\ batch.outcome = "returned"
        /\ Len(batch.cycles) = Len(rss_urls)
        /\ batch.total = SumOfResults(batch.cycles))

\* C14 (amended): check_feeds has no exception handler, so a cycle that fails
\* is the last cycle of the batch: the exception leaves check_feeds, no total
\* is returned and the feeds after it are not synced; the cycles before it
\* all returned.
C14_FailedCycleAbortsBatch ==
    /\ \A k \in 1..Len(batch.cycles) :
          batch.cycles[k].status /= "returned"
          => (/\ k = Len(batch.cycles)
              /\ batch.cycles[k].result = 0
              /\ pc = "idle"
              /\ batch.outcome = "raised"
              /\ batch.total = 0)
    /\ batch.outcome = "raised"
       => (/\ Len(batch.cycles) >= 1
           /\ batch.cycles[Len(batch.cycles)].status /= "returned")

\* The first of two different feeds failed and the second was never synced.
C14_Witness ==
    /\ pc = "idle"
    /\ batch.outcome = "raised"
    /\ Len(rss_urls) = 2
    /\ rss_urls[1] /= rss_urls[2]
    /\ Len(batch.cycles) = 1
    /\ batch.cycles[1].status /= "returned"

\* C15: a sync cycle for a feed URL reads and writes only the snapshot stored
\* under that URL's key, whether it succeeds or fails: every other key of the
\* bucket, and the stored snapshot of every other feed, is as it was when the
\* cycle started.
C15_OtherFeedsUntouched ==
    pc /= "idle"
    => (/\ \A k \in (DOMAIN s3 \cup DOMAIN s3_at_start)
                        \ {calculate_s3_key(BucketPath, rss_url)} :
              /\ k \in DOMAIN s3
              /\ k \in DOMAIN s3_at_start
              /\ s3[k] = s3_at_start[k]
        /\ \A other \in RssUrls \ {rss_url} :
              get_rss_feed(s3, other) = get_rss_feed(s3_at_start, other)
        /\ Diffed => old_rss_feed = get_rss_feed(s3_at_start, rss_url))

\* A cycle overwrote its own snapshot while another feed's snapshot is stored.
C15_Witness ==
    /\ pc = "done"
    /\ status = "returned"
    /\ put_calls = 1
    /\ s3 /= s3_at_start
    /\ \E other \in RssUrls \ {rss_url} :
          /\ calculate_s3_key(BucketPath, other) \in DOMAIN s3
          /\ get_rss_feed(s3, other) /= get_rss_feed(s3, rss_url)

(***************************************************************************)
(* Properties of the notification message                                  *)
(***************************************************************************)

\* C16: every notification message carries, next to 'default' and 'email', a
\* 'lambda' payload that is a JSON object with the fields title, link,
\* publishDate, contentType and content, the fields the Zoho handler reads.
C16_MessageCarriesLambdaPayload ==
    \A k \in 1..Len(sns) :
        LET message == JsonLoads(sns[k].Message)
        IN  /\ {"default", "email", "lambda"} \subseteq DOMAIN message
            /\ ZohoHandleReads \subseteq DOMAIN JsonLoads(message.lambda)

\* C17: generate_content_for_sns returns the (type, value) of the text/html
\* content if there is one and it fits within max_length, otherwise those of
\* the text/plain content if there is one and it fits, otherwise ('', ''),
\* also for an empty list.
C17_HtmlThenPlainThenNothing ==
    sns_content.called
    => LET contents == Range(sns_content.contents)
           fits(c)  == Len(c.value) <= sns_content.max_length
           htmls    == {c \in contents : c.type = HTML /\ fits(c)}
           plains   == {c \in contents : c.type = TEXT /\ fits(c)}
       IN  /\ htmls /= {}
              => \E c \in htmls : sns_content.result = <<c.type, c.value>>
           /\ (htmls = {} /\ plains /= {})
              => \E c \in plains : sns_content.result = <<c.type, c.value>>
           /\ (htmls = {} /\ plains = {}) => sns_content.result = <<"", "">>

\* Both contents present, the html one too long: the plain text is chosen.
C17_Witness ==
    /\ sns_content.called
    /\ sns_content.contents = <<[type |-> TEXT, value |-> TEXT_VALUE],
                                [type |-> HTML, value |-> HTML_VALUE]>>
    /\ sns_content.max_length = 20
    /\ sns_content.result = <<TEXT, TEXT_VALUE>>

(***************************************************************************)
(* Properties of the order of notifying and saving                         *)
(***************************************************************************)

\* C18: within one cycle the store is written at most once, the write comes
\* only after the notify call of every new entry has returned, and no notify
\* call of the cycle comes after its save.
C18_SaveOnceAfterAllNotified ==
    [][/\ put_calls' <= 1
       /\ put_calls' > put_calls
          => (/\ Len(notify_calls) = Len(new_entries)
              /\ Len(sns) = Len(new_entries)
              /\ notify_calls' = notify_calls
              /\ sns' = sns)
       /\ put_calls >= 1
          => (/\ Len(notify_calls') <= Len(notify_calls)
              /\ Len(sns') <= Len(sns))]_vars

\* A cycle that notified two entries and then saved.
C18_Witness ==
    /\ pc = "done"
    /\ put_calls = 1
    /\ s3 /= s3_at_start
    /\ Len(sns) = 2
    /\ Len(notify_calls) = 2

\* The snapshot persisted for the running cycle's feed when the cycle began.
PersistedAtStart == get_rss_feed(s3_at_start, rss_url)

\* C19: whenever a cycle that started from a non-empty persisted snapshot
\* overwrites it, every entry of the snapshot now persisted whose identity
\* was absent from the previous one was successfully notified in that cycle.
C19_PersistedNeverAheadOfNotified ==
    (/\ pc /= "idle"
     /\ PersistedAtStart /= EmptyString
     /\ (put_calls >= 1 \/ s3 /= s3_at_start))
    => \A entry \in Range(FeedParserEntries(Persisted)) :
           get_rss_entry_id(entry) \notin OldItemsIds(FeedParserEntries(PersistedAtStart))
           => \E k \in 1..Len(sns) : sns[k] = PublishRequest(entry)

\* After a cycle aborted by a notify failure, a cycle overwrote a non-empty
\* snapshot with a feed that has two entries the snapshot did not have.
C19_Witness ==
    /\ pc = "done"
    /\ status = "returned"
    /\ prev.status = "raised_notify"
    /\ PersistedAtStart /= EmptyString
    /\ Persisted = new_rss_feed
    /\ Persisted /= PersistedAtStart
    /\ Len(new_entries) = 2
    /\ Len(sns) = 2

\* C20: when save_rss_feed fails after the notifications of a cycle were
\* sent, the failure leaves process_rss_feed and check_feeds (no count is
\* returned), the persisted snapshot keeps its previous value, and the next
\* cycle for the feed finds the same entries new and notifies them again.
C20_SaveFailureReplaysNotifications ==
    /\ (pc = "done" /\ status = "raised_save")
       => (/\ result = 0
           /\ s3 = s3_at_start
           /\ Persisted = old_rss_feed
           /\ Len(new_entries) > 0
           /\ Len(sns) = Len(new_entries))
    /\ (pc = "idle" /\ prev.status = "raised_save")
       => (/\ batch.outcome = "raised"
           /\ batch.total = 0
           /\ prev.found /= {}
           /\ prev.delivered >= Cardinality(prev.found))
    /\ (Diffed /\ prev.status = "raised_save" /\ prev.rss_url = rss_url)
       => (/\ FoundAgain \subseteq Range(new_entries)
           /\ (pc = "save" \/ (pc = "done" /\ status \in {"returned", "raised_save"}))
              => \A entry \in FoundAgain :
                     \E k \in 1..Len(sns) : sns[k] = PublishRequest(entry))

\* The cycle after a failed save notified again both entries the failed
\* cycle had already notified.
C20_Witness ==
    /\ pc = "done"
    /\ status = "returned"
    /\ prev.status = "raised_save"
    /\ prev.rss_url = rss_url
    /\ Cardinality(prev.found) = 2
    /\ prev.delivered = 2
    /\ FoundAgain = prev.found
    /\ Len(sns) = 2

(***************************************************************************)
(* Properties of entries without an id and of repeated identities          *)
(***************************************************************************)

\* C21: a new entry that has no id and is identified by its link is handled
\* like any other: the notify call for it succeeds, the entries after it are
\* notified too, and once the loop is through the snapshot is persisted; an
\* entry without an id never makes the cycle fail.
C21_IdlessEntryHandled ==
    (pc = "done" /\ Diffed)
    => \A k \in 1..Len(notify_calls) :
           "id" \notin DOMAIN notify_calls[k]
           => (/\ \E j \in 1..Len(sns) : sns[j] = PublishRequest(notify_calls[k])
               /\ k < Len(new_entries) => Len(notify_calls) > k
               /\ (Len(sns) = Len(new_entries) /\ status /= "raised_save")
                  => (status = "returned" /\ Persisted = new_rss_feed))

\* How many entries of the list have the identity.
IdCount(entries, identity) ==
    Cardinality({k \in 1..Len(entries) : get_rss_entry_id(entries[k]) = identity})

\* C22: the differ does not deduplicate the new feed: an identity absent
\* from the old feed is returned as often as it occurs in the new feed, and
\* every occurrence is notified and counted, while an identity that occurs
\* in the old feed, any number of times, is not returned at all.
C22_NoSelfDeduplication ==
    Diffed
    => LET old_entries  == FeedParserEntries(old_rss_feed)
           feed_entries == FeedParserEntries(new_rss_feed)
       IN  /\ \A k \in 1..Len(feed_entries) :
                 LET identity == get_rss_entry_id(feed_entries[k])
                 IN  IdCount(new_entries, identity) =
                         IF IdCount(old_entries, identity) > 0
                         THEN 0
                         ELSE IdCount(feed_entries, identity)
           /\ (pc = "done" /\ status = "returned" /\ new_entries /= <<>>)
              => (/\ result = Len(new_entries)
                  /\ Len(sns) = Len(new_entries)
                  /\ \A k \in 1..Len(new_entries) :
                        IdCount(notify_calls, get_rss_entry_id(new_entries[k]))
                            = IdCount(new_entries, get_rss_entry_id(new_entries[k])))

\* A non-empty snapshot without the identity, a fetched feed that has it
\* twice: both occurrences were notified and counted.
C22_Witness ==
    /\ pc = "done"
    /\ status = "returned"
    /\ FeedParserEntries(old_rss_feed) /= <<>>
    /\ Len(new_entries) = 2
    /\ get_rss_entry_id(new_entries[1]) = get_rss_entry_id(new_entries[2])
    /\ Len(sns) = 2
    /\ result = 2

\* A snapshot with the identity twice, a fetched feed with it twice too:
\* nothing is new.
C22_WitnessSuppressed ==
    /\ pc = "done"
    /\ status = "returned"
    /\ Len(FeedParserEntries(old_rss_feed)) = 2
    /\ Len(FeedParserEntries(new_rss_feed)) = 2
    /\ IdCount(FeedParserEntries(old_rss_feed), "a") = 2
    /\ IdCount(FeedParserEntries(new_rss_feed), "a") = 2
    /\ new_entries = <<>>
    /\ result = 0

====
